---- MODULE Spec2Model ----
(***************************************************************************)
(* Model of the MCP demo client: the query orchestration of                *)
(* apps/client/src/queries.py, the catalog formatters of tools.py and      *)
(* resources.py, and the connection manager of mcp_connection.py.          *)
(*                                                                         *)
(* Python values: a str is [kind |-> "str", val |-> <<pieces>>] (the text  *)
(* is the concatenation of the pieces), None is [kind |-> "None"], a list  *)
(* handed to an API that also accepts None is [kind |-> "list"].  An       *)
(* exception in flight is the sequence of its class names, outermost       *)
(* first: raise B from A of class a is <<b, a>>.                           *)
(***************************************************************************)
EXTENDS Integers, Sequences, FiniteSets, TLC

\* ------------------------------------------------------------ bounds
MaxTools == 2
MaxResources == 2
MaxToolCalls == 2
MaxClock == 3

\* ------------------------------------------------------ Python values
PyNone == [kind |-> "None", val |-> <<>>]
Str(pieces) == [kind |-> "str", val |-> pieces]
PyList(s) == [kind |-> "list", val |-> s]
\* str(v) inside an f-string: None renders as the text "None"
FStr(v) == IF v.kind = "None" THEN <<"None">> ELSE v.val

RECURSIVE SeqsUpTo(_, _)
SeqsUpTo(S, n) ==
    IF n = 0 THEN {<<>>}
    ELSE LET shorter == SeqsUpTo(S, n - 1)
         IN  shorter \cup {Append(s, x) : s \in {t \in shorter : Len(t) = n - 1}, x \in S}

RECURSIVE Concat(_)
Concat(ss) == IF ss = <<>> THEN <<>> ELSE Head(ss) \o Concat(Tail(ss))

\* --------------------------------------------------- module constants
SYSTEM_MESSAGE_BASE == "You are a helpful assistant."
RESOURCES_PROMPT == "\n\nAvailable Resources (use tools to fetch content):\n"
TOOL_USAGE_PROMPT == "\nUse the appropriate tools to fetch resource content when needed."
TOOL_CHOICE_AUTO_Required == "required"

TOOL_CHOICE_AUTO == "auto"
TOOL_CHOICE_NONE_Auto == "auto"

TOOL_CHOICE_NONE == "none"
EmptyDict == "{}"

\* ------------------------------------------- what the server can expose
\* tool descriptors as the server's list_tools reports them
ToolAdd ==
    [name |-> "add",
     description |-> Str(<<"Add two numbers together">>),
     inputSchema |-> "{a: integer, b: integer}"]
ToolReadResource ==
    [name |-> "read_resource_content",
     description |-> Str(<<"Read the content of a specific MCP resource by its URI.">>),
     inputSchema |-> "{resource_uri: string}"]
ToolDescs == {ToolAdd, ToolReadResource}

\* resource descriptors as list_resources reports them; a resource
\* registered without a docstring has no description
ResConfig == [name |-> "get_config", description |-> Str(<<"Static configuration data">>)]
ResData ==
    [name |-> "list_all_data_products",
     description |-> Str(<<"List all available data product names">>)]
ResUndocumented == [name |-> "undocumented", description |-> PyNone]
ResourceDescs == {ResConfig, ResUndocumented}

\* the catalog of apps/mcp_server/src/server.py, in registration order
ServerToolCatalog == <<ToolAdd, ToolReadResource>>
ServerResourceCatalog == <<ResConfig, ResData>>

ToolCatalogs == SeqsUpTo(ToolDescs, MaxTools)
ResourceCatalogs == SeqsUpTo(ResourceDescs, MaxResources)

VARIABLES
    \* ---- the server the session talks to
    serverTools,        \* what list_tools returns when it succeeds
    serverResources,    \* what list_resources returns when it succeeds
    \* ---- process_query_with_resource_tools
    qpc,                \* position in the function
    tools,              \* local: get_mcp_tools' return value
    resources_info,     \* local: get_mcp_resources' return value
    messages,           \* local: the conversation list
    idx,                \* _process_tool_calls: 1-based index of the current request
    result,             \* what the caller gets: a str, None, or a raised exception
    \* ---- observation of the run (history)
    toolsFetch,         \* how get_server_info ended inside get_mcp_tools
    resFetch,           \* how get_server_info ended inside get_mcp_resources
    apiLog,             \* the completion-API requests submitted, in order
    apiReplies,         \* what each of them produced
    serverCalls,        \* the call_tool invocations issued, in order
    callOutcomes,       \* per tool-call request: how its execution ended
    stepError,          \* the error the outer handler of the query caught
    \* ---- connect_to_mcp_server
    cpc,                \* position in the context manager
    timeout,            \* the timeout argument; 0 stands for a falsy one (None, 0)
    clock,              \* time elapsed since the scope was entered
    timer,              \* asyncio.timeout: "off", "armed" or "expired"
    proc,               \* the server subprocess: "none", "running", "terminated"
    stream,             \* the stdio streams: "none", "open", "closed"
    session,            \* the ClientSession: "none", "open", "closed"
    yielded,            \* the session was yielded to the caller's body
    pending,            \* the exception in flight inside the manager, <<>> if none
    outcome,            \* what the caller of the scope gets at its end
    \* ---- observation of the connection (history)
    firedAt,            \* where the manager was when the timeout fired
    yieldedAt,          \* the time at which the session was yielded, -1 before
    failedAt,           \* where the manager was when a step raised
    spawns,             \* how many times stdio_client was entered
    handshakes,         \* how many times session.initialize() was awaited
    \* ---- the server's read_resource_content tool
    spc,                \* "ready" before the call, "returned" after it
    resource_uri,       \* the argument, a text in pieces
    srvResult           \* the text the tool returned

queryVars == <<serverTools, serverResources, qpc, tools, resources_info, messages,
               idx, result, toolsFetch, resFetch, apiLog, apiReplies, serverCalls,
               callOutcomes, stepError>>

connVars == <<cpc, timeout, clock, timer, proc, stream, session, yielded, pending,
              outcome, firedAt, yieldedAt, failedAt, spawns, handshakes>>

srvVars == <<spc, resource_uri, srvResult>>

vars == <<queryVars, connVars, srvVars>>

\* ------------------------------------------------ the session's replies
\* outcome of one awaited SDK call: a value, or an exception with its message
Returns(v) == [ok |-> TRUE, val |-> v, err |-> <<>>]
Raises(msg) == [ok |-> FALSE, val |-> <<>>, err |-> msg]

ListToolsOutcomes == {Returns(serverTools), Raises(<<"list_tools failed">>)}
ListResourcesOutcomes == {Returns(serverResources), Raises(<<"list_resources failed">>)}

get_server_info_PerListing(lt, lr) ==
    IF ~lt.ok THEN [raised |-> TRUE, err |-> lt.err, tools |-> <<>>, resources |-> <<>>]
    ELSE [raised |-> FALSE, err |-> <<>>,
          tools |-> [i \in DOMAIN lt.val |->
                        [name |-> lt.val[i].name, description |-> lt.val[i].description]],
          resources |-> IF ~lr.ok THEN <<>>
                        ELSE [i \in DOMAIN lr.val |->
                                 [name |-> lr.val[i].name,
                                  description |-> lr.val[i].description]]]

\* ------------------------------------------ mcp_connection.get_server_info
\* lt, lr: how session.list_tools() and session.list_resources() end.
\* list_resources is awaited only after list_tools returned.
get_server_info(lt, lr) ==
    IF ~lt.ok THEN [raised |-> TRUE, err |-> lt.err, tools |-> <<>>, resources |-> <<>>]
    ELSE IF ~lr.ok THEN [raised |-> TRUE, err |-> lr.err, tools |-> <<>>, resources |-> <<>>]
    ELSE [raised |-> FALSE, err |-> <<>>,
          tools |-> [i \in DOMAIN lt.val |->
                        [name |-> lt.val[i].name, description |-> lt.val[i].description]],
          resources |-> [i \in DOMAIN lr.val |->
                        [name |-> lr.val[i].name, description |-> lr.val[i].description]]]

\* which await of get_server_info raised, if any
FetchTag(lt, lr) ==
    IF ~lt.ok THEN "list_tools_raised"
    ELSE IF ~lr.ok THEN "list_resources_raised" ELSE "ok"

\* dict.get(key, default)
DictGet(d, key, default) == IF key \in DOMAIN d THEN d[key] ELSE default

\* ------------------------------------------------- tools.get_mcp_tools
FormatTool_NameAsDescription(tool) ==
    [type |-> "function",
     function |-> [name |-> tool.name,
                   description |-> Str(<<tool.name>>),
                   parameters |-> DictGet(tool, "inputSchema", EmptyDict)]]

\* the entry appended for one tool of server_info["tools"]
FormatTool(tool) ==
    [type |-> "function",
     function |-> [name |-> tool.name,
                   description |-> tool.description,
                   parameters |-> DictGet(tool, "inputSchema", EmptyDict)]]

get_mcp_tools_Reraise(lt, lr) ==
    LET server_info == get_server_info(lt, lr)
    IN  IF server_info.raised THEN Raises(server_info.err)
        ELSE Returns([i \in DOMAIN server_info.tools |-> FormatTool(server_info.tools[i])])

\* how the call ends: it returns a list on both paths of its try
get_mcp_tools(lt, lr) ==
    LET server_info == get_server_info(lt, lr)
    IN  IF server_info.raised THEN Returns(<<>>)
        ELSE Returns([i \in DOMAIN server_info.tools |-> FormatTool(server_info.tools[i])])

\* ----------------------------------------- resources.get_mcp_resources
FormatResource(resource) ==
    [type |-> "resource",
     resource |-> [name |-> resource.name, description |-> resource.description]]

get_mcp_resources(lt, lr) ==
    LET server_info == get_server_info(lt, lr)
    IN  IF server_info.raised THEN Returns(<<>>)
        ELSE Returns([i \in DOMAIN server_info.resources |->
                         FormatResource(server_info.resources[i])])

BulletLine_NameOnly(resource) ==
    <<"- ", resource.resource.name, ": ">> \o <<resource.resource.name>> \o <<"\n">>

\* ------------------------------------- queries._build_system_message
BulletLine(resource) ==
    <<"- ", resource.resource.name, ": ">> \o FStr(resource.resource.description) \o <<"\n">>

_build_system_message(info) ==
    IF info = <<>> THEN Str(<<SYSTEM_MESSAGE_BASE>>)
    ELSE Str(<<SYSTEM_MESSAGE_BASE, RESOURCES_PROMPT>>
             \o Concat([i \in DOMAIN info |-> BulletLine(info[i])])
             \o <<TOOL_USAGE_PROMPT>>)

\* ------------------------------------------------ the completion API
UserQuery == Str(<<"What data products are available to me?">>)
IndexErrorText == <<"list index out of range">>

ApiRaises(msg) == [kind |-> "raise", err |-> msg, content |-> PyNone, tool_calls |-> <<>>]
\* a response whose choices list is empty: response.choices[0] raises IndexError
NoChoices == [kind |-> "empty", err |-> IndexErrorText, content |-> PyNone, tool_calls |-> <<>>]
\* a response with a message; tool_calls <<>> stands for both None and []
Message(c, tc) == [kind |-> "message", err |-> <<>>, content |-> c, tool_calls |-> tc]

Contents == {PyNone, Str(<<"The answer.">>)}
CallId(i) == <<"call", i>>
ArgumentTexts == {"{\"a\": 5, \"b\": 3}", "{\"a\": 5,"}
ToolCallRequests ==
    {[id |-> CallId(i), function |-> [name |-> "add", arguments |-> a]] :
        i \in 1..MaxToolCalls, a \in ArgumentTexts}
\* the tool-call lists a response can carry: the i-th request has the i-th id
ToolCallLists ==
    UNION {{tc \in [1..n -> ToolCallRequests] : \A i \in 1..n : tc[i].id = CallId(i)} :
              n \in 0..MaxToolCalls}

FirstReplies ==
    {ApiRaises(<<"Connection error.">>), NoChoices}
    \cup {Message(c, tc) : c \in Contents, tc \in ToolCallLists}
\* the API requests calls only of tools it was offered: a call made without
\* tools is answered without tool-call requests
FirstRepliesFor(tls) == {r \in FirstReplies : r.tool_calls # <<>> => tls # <<>>}
\* the second call is made with tool choice "none": what it carries beyond
\* its content is never read
FinalReplies ==
    {ApiRaises(<<"Connection error.">>), NoChoices}
    \cup {Message(c, <<>>) : c \in Contents}
    \cup {Message(PyNone, <<[id |-> CallId(1),
                             function |-> [name |-> "add", arguments |-> "{\"a\": 5,"]]>>)}

\* the request _make_openai_call submits
_make_openai_call(msgs, tls, tool_choice) ==
    [messages |-> msgs,
     tools |-> IF tls # <<>> THEN PyList(tls) ELSE PyNone,
     tool_choice |-> IF tls # <<>> THEN Str(<<tool_choice>>) ELSE PyNone]

\* ------------------------------------------------ tool-call execution
json_loads(text) ==
    IF text = "{\"a\": 5, \"b\": 3}" THEN Returns([a |-> 5, b |-> 3])
    ELSE Raises(<<"Expecting property name enclosed in double quotes: line 1 column 10 (char 9)">>)

\* how session.call_tool can end: a result with one text item, a result
\* with an empty content list, or an exception
CallToolOutcomes ==
    {Returns(<<[text |-> Str(<<"8">>)]>>), Returns(<<>>), Raises(<<"Connection closed">>)}

ToolErrorMessage_Bare(tool_call, err) ==
    [role |-> "tool", tool_call_id |-> tool_call.id, content |-> Str(err)]

ToolErrorMessage(tool_call, err) ==
    [role |-> "tool", tool_call_id |-> tool_call.id,
     content |-> Str(<<"Error executing tool: ">> \o err)]

\* how the try body of _execute_single_tool_call ends, given how
\* session.call_tool ends when it is reached
ExecutionOutcome(tool_call, reply) ==
    LET parsed_args == json_loads(tool_call.function.arguments)
    IN  IF ~parsed_args.ok THEN [kind |-> "undecodable", err |-> parsed_args.err]
        ELSE IF ~reply.ok THEN [kind |-> "raised", err |-> reply.err]
        ELSE IF reply.val = <<>> THEN [kind |-> "no_content", err |-> IndexErrorText]
        ELSE [kind |-> "ok", err |-> <<>>]

_execute_single_tool_call_NoId(tool_call, reply) ==
    LET out == ExecutionOutcome(tool_call, reply)
    IN  IF out.kind = "ok"
        THEN [role |-> "tool", tool_call_id |-> <<"call", 0>>,
              content |-> reply.val[1].text]
        ELSE ToolErrorMessage(tool_call, out.err)

\* the message _execute_single_tool_call returns
_execute_single_tool_call(tool_call, reply) ==
    LET out == ExecutionOutcome(tool_call, reply)
    IN  IF out.kind = "ok"
        THEN [role |-> "tool", tool_call_id |-> tool_call.id,
              content |-> reply.val[1].text]
        ELSE ToolErrorMessage(tool_call, out.err)

\* ------------------------------ queries.process_query_with_resource_tools
Unset == [kind |-> "unset", val |-> <<>>]
Apology(err) ==
    Str(<<"Sorry, I encountered an error while processing your query: ">> \o err)

QueryExcept_Reraise(err) == [kind |-> "exception", val |-> err]

\* what the function hands its caller once the outer handler caught err
QueryExcept(err) == Apology(err)

AssistantMessage(reply) ==
    [role |-> "assistant", content |-> reply.content, tool_calls |-> reply.tool_calls]

\* if assistant_message.tool_calls:
HasToolCalls(assistant_message) == assistant_message.tool_calls # <<>>

\* direct_content = assistant_message.content
DirectContent_OrEmpty(assistant_message) ==
    IF assistant_message.content.kind = "None" THEN Str(<<>>)
    ELSE assistant_message.content

DirectContent(assistant_message) == assistant_message.content

\* the for loop of _process_tool_calls: entered with the first request, or
\* over at once when there is none
LoopEntry(tool_calls) == IF tool_calls # <<>> THEN "dispatch" ELSE "final_call"

\* the for loop of _process_tool_calls after request i of n ended with out
AfterToolCall_StopOnError(out, i, n) ==
    IF i < n /\ out.kind = "ok" THEN "dispatch" ELSE "final_call"

AfterToolCall(out, i, n) == IF i < n THEN "dispatch" ELSE "final_call"

QueryStart ==
    /\ qpc = "start"
    /\ tools = <<>>
    /\ resources_info = <<>>
    /\ messages = <<>>
    /\ idx = 0
    /\ result = Unset
    /\ toolsFetch = "none"
    /\ resFetch = "none"
    /\ apiLog = <<>>
    /\ apiReplies = <<>>
    /\ serverCalls = <<>>
    /\ callOutcomes = <<>>
    /\ stepError = <<>>

\* tools = await get_mcp_tools(session)
GetTools ==
    /\ qpc = "start"
    /\ \E lt \in ListToolsOutcomes, lr \in ListResourcesOutcomes :
         LET r == get_mcp_tools(lt, lr)
         IN  /\ toolsFetch' = FetchTag(lt, lr)
             /\ IF r.ok
                THEN /\ tools' = r.val
                     /\ qpc' = "get_resources"
                     /\ UNCHANGED <<result, stepError>>
                ELSE /\ qpc' = "done"
                     /\ result' = QueryExcept(r.err)
                     /\ stepError' = r.err
                     /\ UNCHANGED tools
    /\ UNCHANGED <<connVars, srvVars, serverTools, serverResources, resources_info, messages, idx, resFetch,
                   apiLog, apiReplies, serverCalls, callOutcomes>>

\* resources_info = await get_mcp_resources(session); then the system
\* message and the conversation list are built
GetResources ==
    /\ qpc = "get_resources"
    /\ \E lt \in ListToolsOutcomes, lr \in ListResourcesOutcomes :
         LET r == get_mcp_resources(lt, lr)
         IN  /\ resFetch' = FetchTag(lt, lr)
             /\ IF r.ok
                THEN /\ resources_info' = r.val
                     /\ messages' = <<[role |-> "system",
                                       content |-> _build_system_message(r.val)],
                                      [role |-> "user", content |-> UserQuery]>>
                     /\ qpc' = "first_call"
                     /\ UNCHANGED <<result, stepError>>
                ELSE /\ qpc' = "done"
                     /\ result' = QueryExcept(r.err)
                     /\ stepError' = r.err
                     /\ UNCHANGED <<resources_info, messages>>
    /\ UNCHANGED <<connVars, srvVars, serverTools, serverResources, tools, idx, toolsFetch,
                   apiLog, apiReplies, serverCalls, callOutcomes>>

\* the initial completion call and the handling of its response
FirstCall ==
    /\ qpc = "first_call"
    /\ \E reply \in FirstRepliesFor(tools) :
         /\ apiLog' = Append(apiLog, _make_openai_call(messages, tools, TOOL_CHOICE_AUTO))
         /\ apiReplies' = Append(apiReplies, reply)
         /\ IF reply.kind # "message"
            THEN /\ qpc' = "done"
                 /\ result' = QueryExcept(reply.err)
                 /\ stepError' = reply.err
                 /\ UNCHANGED <<messages, idx>>
            ELSE /\ messages' = Append(messages, AssistantMessage(reply))
                 /\ UNCHANGED stepError
                 /\ IF HasToolCalls(AssistantMessage(reply))
                    THEN /\ qpc' = LoopEntry(reply.tool_calls)
                         /\ idx' = 1
                         /\ UNCHANGED result
                    ELSE /\ qpc' = "done"
                         /\ result' = DirectContent(AssistantMessage(reply))
                         /\ UNCHANGED idx
    /\ UNCHANGED <<connVars, srvVars, serverTools, serverResources, tools, resources_info, toolsFetch,
                   resFetch, serverCalls, callOutcomes>>

\* the request the for loop of _process_tool_calls is at
CurrentToolCalls == messages[3].tool_calls
CurrentToolCall == CurrentToolCalls[idx]

ToolCallStart_FanOut ==
    /\ qpc = "dispatch"
    /\ serverCalls' = serverCalls \o
                      [k \in 1..(Len(CurrentToolCalls) - idx + 1) |->
                          [name |-> CurrentToolCalls[idx + k - 1].function.name,
                           arguments |-> CurrentToolCalls[idx + k - 1].function.arguments,
                           request |-> idx + k - 1]]
    /\ qpc' = "awaiting_tool"
    /\ UNCHANGED <<connVars, srvVars, serverTools, serverResources, tools, resources_info,
                   result, toolsFetch, resFetch, apiLog, apiReplies, stepError, messages,
                   idx, callOutcomes>>

ToolCallStart_ForwardRaw ==
    /\ qpc = "dispatch"
    /\ serverCalls' = Append(serverCalls,
                             [name |-> CurrentToolCall.function.name,
                              arguments |-> CurrentToolCall.function.arguments,
                              request |-> idx])
    /\ qpc' = "awaiting_tool"
    /\ UNCHANGED <<connVars, srvVars, serverTools, serverResources, tools, resources_info,
                   result, toolsFetch, resFetch, apiLog, apiReplies, stepError, messages,
                   idx, callOutcomes>>

\* _execute_single_tool_call up to its await: the arguments are decoded and
\* session.call_tool is issued, or decoding raised and the error message
\* is returned and appended
ToolCallStart ==
    /\ qpc = "dispatch"
    /\ LET parsed_args == json_loads(CurrentToolCall.function.arguments)
           out == ExecutionOutcome(CurrentToolCall, Raises(<<>>))
       IN  IF parsed_args.ok
           THEN /\ serverCalls' = Append(serverCalls,
                                         [name |-> CurrentToolCall.function.name,
                                          arguments |-> parsed_args.val,
                                          request |-> idx])
                /\ qpc' = "awaiting_tool"
                /\ UNCHANGED <<messages, idx, callOutcomes>>
           ELSE /\ messages' = Append(messages,
                                      _execute_single_tool_call(CurrentToolCall, Raises(<<>>)))
                /\ callOutcomes' = Append(callOutcomes, out)
                /\ qpc' = AfterToolCall(out, idx, Len(CurrentToolCalls))
                /\ idx' = idx + 1
                /\ UNCHANGED serverCalls
    /\ UNCHANGED <<connVars, srvVars, serverTools, serverResources, tools, resources_info, result,
                   toolsFetch, resFetch, apiLog, apiReplies, stepError>>

ToolCallEnd_Retry ==
    /\ qpc = "awaiting_tool"
    /\ \E reply \in CallToolOutcomes :
         LET out == ExecutionOutcome(CurrentToolCall, reply)
             attempts == Cardinality({k \in DOMAIN serverCalls : serverCalls[k].request = idx})
         IN  IF out.kind = "raised" /\ attempts < 2
             THEN /\ qpc' = "dispatch"
                  /\ UNCHANGED <<messages, callOutcomes, idx>>
             ELSE /\ messages' = Append(messages, _execute_single_tool_call(CurrentToolCall, reply))
                  /\ callOutcomes' = Append(callOutcomes, out)
                  /\ qpc' = AfterToolCall(out, idx, Len(CurrentToolCalls))
                  /\ idx' = idx + 1
    /\ UNCHANGED <<connVars, srvVars, serverTools, serverResources, tools, resources_info, result,
                   toolsFetch, resFetch, apiLog, apiReplies, serverCalls, stepError>>

\* session.call_tool ends; the tool message is returned and appended
ToolCallEnd ==
    /\ qpc = "awaiting_tool"
    /\ \E reply \in CallToolOutcomes :
         LET out == ExecutionOutcome(CurrentToolCall, reply)
         IN  /\ messages' = Append(messages, _execute_single_tool_call(CurrentToolCall, reply))
             /\ callOutcomes' = Append(callOutcomes, out)
             /\ qpc' = AfterToolCall(out, idx, Len(CurrentToolCalls))
             /\ idx' = idx + 1
    /\ UNCHANGED <<connVars, srvVars, serverTools, serverResources, tools, resources_info, result,
                   toolsFetch, resFetch, apiLog, apiReplies, serverCalls, stepError>>

FinalCall_AnotherRound ==
    /\ qpc = "final_call"
    /\ \E reply \in FinalReplies :
         /\ apiLog' = Append(apiLog, _make_openai_call(messages, tools, TOOL_CHOICE_NONE))
         /\ apiReplies' = Append(apiReplies, reply)
         /\ IF reply.kind # "message"
            THEN qpc' = "done" /\ result' = QueryExcept(reply.err) /\ stepError' = reply.err
            ELSE IF reply.tool_calls # <<>>
            THEN qpc' = "first_call" /\ UNCHANGED <<result, stepError>>
            ELSE qpc' = "done" /\ result' = reply.content /\ UNCHANGED stepError
    /\ UNCHANGED <<connVars, srvVars, serverTools, serverResources, tools, resources_info,
                   messages, idx, toolsFetch, resFetch, serverCalls, callOutcomes>>

\* the final completion call and the return of its content
FinalCall ==
    /\ qpc = "final_call"
    /\ \E reply \in FinalReplies :
         /\ apiLog' = Append(apiLog, _make_openai_call(messages, tools, TOOL_CHOICE_NONE))
         /\ apiReplies' = Append(apiReplies, reply)
         /\ qpc' = "done"
         /\ IF reply.kind # "message"
            THEN result' = QueryExcept(reply.err) /\ stepError' = reply.err
            ELSE result' = reply.content /\ UNCHANGED stepError
    /\ UNCHANGED <<connVars, srvVars, serverTools, serverResources, tools, resources_info, messages, idx,
                   toolsFetch, resFetch, serverCalls, callOutcomes>>

\* ------------------------------ mcp_connection.connect_to_mcp_server
\* One exception is [class, text]; classes derived from Exception are
\* caught by "except Exception", CancelledError (a BaseException) is not.
Exc(class, text) == [class |-> class, text |-> text]
ExceptionClasses == {"OSError", "McpError", "RuntimeError", "ConnectionError", "TimeoutError"}
Cancelled == Exc("CancelledError", "")
IsException(exc) == exc # <<>> /\ Head(exc).class \in ExceptionClasses

\* what stdio_client's entry, ClientSession's entry, session.initialize()
\* and the caller's body raise when they fail
StartupErrors == {Exc("OSError", "No such file or directory")}
SessionErrors == {Exc("RuntimeError", "session start failed")}
HandshakeErrors == {Exc("McpError", "Connection closed")}
BodyErrors == {Exc("RuntimeError", "body failed"), Exc("TimeoutError", ""),
               Exc("SystemExit", "")}

\* timeout: Optional[float] = 30.0, counted in ticks of the model's clock
DefaultTimeout == MaxClock
Timeouts == 0..MaxClock

\* async with asyncio.timeout(timeout) if timeout else asyncio.nullcontext()
ArmTimer(t) == IF t # 0 THEN "armed" ELSE "off"

\* the places where the manager is suspended inside the timeout scope
AwaitPoints == {"stdio_enter", "session_enter", "initialize", "body"}

\* the deadline has passed with the timer armed
Due == timer = "armed" /\ clock >= timeout

InnerHandler_CatchAll(exc) ==
    IF exc # <<>>
    THEN <<Exc("ConnectionError", "MCP session initialization failed")>> \o exc
    ELSE exc

\* except Exception as e: raise ConnectionError(...) from e  (inner try)
InnerHandler(exc) ==
    IF IsException(exc)
    THEN <<Exc("ConnectionError", "MCP session initialization failed")>> \o exc
    ELSE exc

\* asyncio.timeout.__aexit__: a cancellation the expired timer caused leaves
\* the block as TimeoutError
TimeoutExit(tm, exc) ==
    IF tm = "expired" /\ exc # <<>> /\ Head(exc).class = "CancelledError"
    THEN <<Exc("TimeoutError", "")>> \o exc
    ELSE exc

OuterHandler_GenericFirst(exc) ==
    IF IsException(exc)
    THEN <<Exc("ConnectionError", "MCP server connection failed")>> \o exc
    ELSE exc

\* except asyncio.TimeoutError: raise
\* except Exception as e: raise ConnectionError(...) from e  (outer try)
OuterHandler(exc) ==
    IF exc # <<>> /\ Head(exc).class = "TimeoutError" THEN exc
    ELSE IF IsException(exc)
    THEN <<Exc("ConnectionError", "MCP server connection failed")>> \o exc
    ELSE exc

ConnStart ==
    /\ cpc = "init"
    /\ clock = 0
    /\ timer = "off"
    /\ proc = "none"
    /\ stream = "none"
    /\ session = "none"
    /\ yielded = FALSE
    /\ pending = <<>>
    /\ outcome = <<>>
    /\ firedAt = "none"
    /\ yieldedAt = -1
    /\ failedAt = "none"
    /\ spawns = 0
    /\ handshakes = 0

\* the scope is entered: the timeout context starts and stdio_client's
\* entry is awaited
Connect ==
    /\ cpc = "init"
    /\ timer' = ArmTimer(timeout)
    /\ cpc' = "stdio_enter"
    /\ spawns' = spawns + 1
    /\ UNCHANGED <<queryVars, srvVars, handshakes, timeout, clock, proc, stream, session, yielded, pending,
                   outcome, firedAt, yieldedAt, failedAt>>

\* time passes while the manager is suspended; it cannot pass the deadline
\* of an armed timer without the timer firing
Tick ==
    /\ cpc \in AwaitPoints
    /\ clock < MaxClock
    /\ ~Due
    /\ clock' = clock + 1
    /\ UNCHANGED <<queryVars, srvVars, spawns, handshakes, cpc, timeout, timer, proc, stream, session, yielded, pending,
                   outcome, firedAt, yieldedAt, failedAt>>

\* async with stdio_client(server_params): the subprocess is started
StdioEnterOk ==
    /\ cpc = "stdio_enter"
    /\ ~Due
    /\ proc' = "running"
    /\ stream' = "open"
    /\ cpc' = "session_enter"
    /\ UNCHANGED <<queryVars, srvVars, spawns, handshakes, timeout, clock, timer, session, yielded, pending, outcome,
                   firedAt, yieldedAt, failedAt>>

\* starting the subprocess raises: nothing of the scope was entered but
\* the timeout context
StdioEnterFails ==
    /\ cpc = "stdio_enter"
    /\ ~Due
    /\ \E e \in StartupErrors : pending' = <<e>>
    /\ failedAt' = cpc
    /\ cpc' = "scope_exit"
    /\ UNCHANGED <<queryVars, srvVars, spawns, handshakes, timeout, clock, timer, proc, stream, session, yielded,
                   outcome, firedAt, yieldedAt>>

\* async with ClientSession(read_stream, write_stream)
SessionEnterOk ==
    /\ cpc = "session_enter"
    /\ ~Due
    /\ session' = "open"
    /\ cpc' = "initialize"
    /\ handshakes' = handshakes + 1
    /\ UNCHANGED <<queryVars, srvVars, spawns, timeout, clock, timer, proc, stream, yielded, pending,
                   outcome, firedAt, yieldedAt, failedAt>>

SessionEnterFails ==
    /\ cpc = "session_enter"
    /\ ~Due
    /\ \E e \in SessionErrors : pending' = <<e>>
    /\ failedAt' = cpc
    /\ cpc' = "stdio_exit"
    /\ UNCHANGED <<queryVars, srvVars, spawns, handshakes, timeout, clock, timer, proc, stream, session, yielded,
                   outcome, firedAt, yieldedAt>>

\* await session.initialize() returns; the session is yielded
InitializeOk ==
    /\ cpc = "initialize"
    /\ ~Due
    /\ yielded' = TRUE
    /\ yieldedAt' = clock
    /\ cpc' = "body"
    /\ UNCHANGED <<queryVars, srvVars, spawns, handshakes, timeout, clock, timer, proc, stream, session, pending,
                   outcome, firedAt, failedAt>>

\* await session.initialize() raises: the inner handler converts it
InitializeFails ==
    /\ cpc = "initialize"
    /\ ~Due
    /\ \E e \in HandshakeErrors : pending' = InnerHandler(<<e>>)
    /\ failedAt' = cpc
    /\ cpc' = "session_exit"
    /\ UNCHANGED <<queryVars, srvVars, spawns, handshakes, timeout, clock, timer, proc, stream, session, yielded,
                   outcome, firedAt, yieldedAt>>

\* the caller's body ends normally: the generator resumes after the yield
BodyReturns ==
    /\ cpc = "body"
    /\ ~Due
    /\ cpc' = "session_exit"
    /\ UNCHANGED <<queryVars, srvVars, spawns, handshakes, timeout, clock, timer, proc, stream, session, yielded,
                   pending, outcome, firedAt, yieldedAt, failedAt>>

BodyRaises_OutsideInnerTry ==
    /\ cpc = "body"
    /\ ~Due
    /\ \E e \in BodyErrors : pending' = <<e>>
    /\ failedAt' = cpc
    /\ cpc' = "session_exit"
    /\ UNCHANGED <<queryVars, srvVars, spawns, handshakes, timeout, clock, timer, proc, stream,
                   session, yielded, outcome, firedAt, yieldedAt>>

\* the caller's body raises: the exception is thrown in at the yield,
\* inside the inner try
BodyRaises ==
    /\ cpc = "body"
    /\ ~Due
    /\ \E e \in BodyErrors : pending' = InnerHandler(<<e>>)
    /\ failedAt' = cpc
    /\ cpc' = "session_exit"
    /\ UNCHANGED <<queryVars, srvVars, spawns, handshakes, timeout, clock, timer, proc, stream, session, yielded,
                   outcome, firedAt, yieldedAt>>

\* where a cancellation delivered at an await point continues: the context
\* managers entered so far are left, innermost first
CancelTarget(at) ==
    IF at = "stdio_enter" THEN "scope_exit"
    ELSE IF at = "session_enter" THEN "stdio_exit"
    ELSE "session_exit"

\* the deadline passes: asyncio.timeout cancels the task, CancelledError is
\* raised at the await point the manager is suspended at
TimeoutFires ==
    /\ cpc \in AwaitPoints
    /\ Due
    /\ timer' = "expired"
    /\ firedAt' = cpc
    /\ pending' = IF cpc \in {"initialize", "body"}
                  THEN InnerHandler(<<Cancelled>>) ELSE <<Cancelled>>
    /\ cpc' = CancelTarget(cpc)
    /\ UNCHANGED <<queryVars, srvVars, spawns, handshakes, timeout, clock, proc, stream, session, yielded, outcome,
                   yieldedAt, failedAt>>

\* the ClientSession block is left
SessionExit ==
    /\ cpc = "session_exit"
    /\ session' = "closed"
    /\ cpc' = "stdio_exit"
    /\ UNCHANGED <<queryVars, srvVars, spawns, handshakes, timeout, clock, timer, proc, stream, yielded, pending,
                   outcome, firedAt, yieldedAt, failedAt>>

StdioExit_OnlyOnSuccess ==
    /\ cpc = "stdio_exit"
    /\ proc' = IF pending = <<>> THEN "terminated" ELSE proc
    /\ stream' = IF pending = <<>> THEN "closed" ELSE stream
    /\ cpc' = "scope_exit"
    /\ UNCHANGED <<queryVars, srvVars, spawns, handshakes, timeout, clock, timer, session, yielded, pending, outcome,
                   firedAt, yieldedAt, failedAt>>

\* the stdio_client block is left: the subprocess is terminated and the
\* streams are closed, whatever is in flight
StdioExit ==
    /\ cpc = "stdio_exit"
    /\ proc' = "terminated"
    /\ stream' = "closed"
    /\ cpc' = "scope_exit"
    /\ UNCHANGED <<queryVars, srvVars, spawns, handshakes, timeout, clock, timer, session, yielded, pending, outcome,
                   firedAt, yieldedAt, failedAt>>

\* the timeout block is left and the outer handlers run: the caller gets
\* <<>> for a normal exit or the exception that leaves the manager
ScopeExit ==
    /\ cpc = "scope_exit"
    /\ outcome' = OuterHandler(TimeoutExit(timer, pending))
    /\ pending' = <<>>
    /\ timer' = IF timer = "armed" THEN "off" ELSE timer
    /\ cpc' = "done"
    /\ UNCHANGED <<queryVars, srvVars, spawns, handshakes, timeout, clock, proc, stream, session, yielded, firedAt,
                   yieldedAt, failedAt>>

\* --------------------------------- mcp_server: read_resource_content
\* A text is a sequence of pieces; the pieces below are chosen so that no
\* text has two decompositions, which makes ==, startswith and replace on
\* texts the same operations on piece sequences.
UriPieces ==
    {"greeting://", "config://app", "config://get_config", "data://list",
     "data://list_all_data_products", "Ann", "Bob"}
MaxUriLen == 3
Uris == SeqsUpTo(UriPieces, MaxUriLen)

\* str.startswith(prefix) for a one-piece prefix
StartsWith(text, prefix) == text # <<>> /\ text[1] = prefix

\* str.replace(old, ""): every occurrence of old is removed
RECURSIVE ReplaceWithEmpty(_, _)
ReplaceWithEmpty(text, old) ==
    IF text = <<>> THEN <<>>
    ELSE IF Head(text) = old THEN ReplaceWithEmpty(Tail(text), old)
    ELSE <<Head(text)>> \o ReplaceWithEmpty(Tail(text), old)

get_config == <<"App configuration here">>
get_greeting(name) == <<"Hello, ">> \o name \o <<"!">>
\* what list_all_data_products can return, depending on the file system
DataListings ==
    {<<"Available Data Products:\n", "- sales">>,
     <<"No data products found in the resources directory.">>,
     <<"Resources directory not found.">>,
     <<"Error accessing data products: ", "Permission denied">>}

\* listing: what list_all_data_products returns if it is called
read_resource_content(uri, listing) ==
    IF uri = <<"data://list">> THEN listing
    ELSE IF uri = <<"data://list_all_data_products">> THEN listing
    ELSE IF uri = <<"config://app">> THEN get_config
    ELSE IF uri = <<"config://get_config">> THEN get_config
    ELSE IF StartsWith(uri, "greeting://")
    THEN get_greeting(ReplaceWithEmpty(uri, "greeting://"))
    ELSE <<"Unknown resource URI: ">> \o uri

ServerIdle ==
    /\ spc = "ready"
    /\ resource_uri = <<>>
    /\ srvResult = <<>>

\* one call of the tool
ReadResource ==
    /\ spc = "ready"
    /\ \E listing \in DataListings :
         srvResult' = read_resource_content(resource_uri, listing)
    /\ spc' = "returned"
    /\ UNCHANGED <<queryVars, connVars, resource_uri>>

InitServer ==
    /\ serverTools = ServerToolCatalog
    /\ serverResources = ServerResourceCatalog
    /\ QueryStart
    /\ timeout = DefaultTimeout
    /\ ConnStart
    /\ spc = "ready"
    /\ resource_uri \in Uris
    /\ srvResult = <<>>

NextServer == ReadResource

SpecServer == InitServer /\ [][NextServer]_vars

InitQuery ==
    /\ serverTools \in {<<>>, ServerToolCatalog}
    /\ serverResources \in {<<>>, ServerResourceCatalog}
    /\ QueryStart
    /\ timeout = DefaultTimeout
    /\ ConnStart
    /\ ServerIdle

NextQuery == GetTools \/ GetResources \/ FirstCall \/ ToolCallStart \/ ToolCallEnd \/ FinalCall

SpecQuery == InitQuery /\ [][NextQuery]_vars

\* the INIT phase of a query over every catalog a server can expose
InitCatalog ==
    /\ serverTools \in ToolCatalogs
    /\ serverResources \in ResourceCatalogs
    /\ QueryStart
    /\ timeout = DefaultTimeout
    /\ ConnStart
    /\ ServerIdle

NextCatalog == GetTools \/ GetResources

SpecCatalog == InitCatalog /\ [][NextCatalog]_vars

InitConn ==
    /\ serverTools = ServerToolCatalog
    /\ serverResources = ServerResourceCatalog
    /\ QueryStart
    /\ timeout \in Timeouts
    /\ ConnStart
    /\ ServerIdle

NextConn ==
    \/ Connect \/ Tick \/ TimeoutFires
    \/ StdioEnterOk \/ StdioEnterFails
    \/ SessionEnterOk \/ SessionEnterFails
    \/ InitializeOk \/ InitializeFails
    \/ BodyReturns \/ BodyRaises
    \/ SessionExit \/ StdioExit \/ ScopeExit

SpecConn == InitConn /\ [][NextConn]_vars

\* one run of the client library: a behaviour is one query or one
\* connection scope, whichever takes the first step
InitClient == InitQuery \/ InitConn

NextClient ==
    \/ cpc = "init" /\ NextQuery
    \/ qpc = "start" /\ NextConn

SpecClient == InitClient /\ [][NextClient]_vars

\* ================================================================ claims
\* helpers over the observed run
FirstReplyIsMessage == Len(apiReplies) >= 1 /\ apiReplies[1].kind = "message"
FirstToolCalls == IF FirstReplyIsMessage THEN apiReplies[1].tool_calls ELSE <<>>
Decodable(tool_call) == json_loads(tool_call.function.arguments).ok
DecodableRequests == {i \in DOMAIN FirstToolCalls : Decodable(FirstToolCalls[i])}
HandshakePoints == {"stdio_enter", "session_enter", "initialize"}
Failed(fetch) == fetch \in {"list_tools_raised", "list_resources_raised"}

\* C1 (as stated): a finished run whose first response carried N >= 1
\* tool-call requests made exactly N call_tool invocations, one per request
\* in order, and exactly 2 completion calls, and returned the content of
\* the second completion response.
C1_Original ==
    (qpc = "done" /\ Len(FirstToolCalls) >= 1) =>
        /\ Len(serverCalls) = Len(FirstToolCalls)
        /\ \A k \in DOMAIN serverCalls : serverCalls[k].request = k
        /\ Len(apiLog) = 2
        /\ apiReplies[2].kind = "message"
        /\ result = apiReplies[2].content

\* C1 (amended): a finished run whose first response carried N >= 1
\* tool-call requests made exactly one call_tool invocation per request
\* whose arguments decode as JSON, in request order and with the decoded
\* arguments, and exactly 2 completion calls; it returned the content of
\* the second response when the second call yielded a message and the
\* apology for the second call's error otherwise.
C1_Amended ==
    (qpc = "done" /\ Len(FirstToolCalls) >= 1) =>
        /\ Len(serverCalls) = Cardinality(DecodableRequests)
        /\ \A k \in DOMAIN serverCalls :
             /\ serverCalls[k].request \in DecodableRequests
             /\ serverCalls[k].name = FirstToolCalls[serverCalls[k].request].function.name
             /\ serverCalls[k].arguments =
                    json_loads(FirstToolCalls[serverCalls[k].request].function.arguments).val
             /\ k > 1 => serverCalls[k - 1].request < serverCalls[k].request
        /\ Len(apiLog) = 2
        /\ result = IF apiReplies[2].kind = "message"
                    THEN apiReplies[2].content
                    ELSE Apology(apiReplies[2].err)

C1_Witness ==
    /\ qpc = "done"
    /\ Len(FirstToolCalls) = 2
    /\ Len(serverCalls) = 2
    /\ Len(apiLog) = 2
    /\ result = Str(<<"The answer.">>)

\* C2: a finished run whose first response carried no tool-call request
\* made exactly one completion call and no call_tool invocation, and
\* returned that response's message content as it was.
C2_DirectAnswer ==
    (qpc = "done" /\ FirstReplyIsMessage /\ FirstToolCalls = <<>>) =>
        /\ Len(apiLog) = 1
        /\ serverCalls = <<>>
        /\ result = apiReplies[1].content

C2_Witness ==
    /\ qpc = "done"
    /\ FirstReplyIsMessage
    /\ FirstToolCalls = <<>>
    /\ result = PyNone
    /\ Len(apiLog) = 1

\* C3: every executed tool-call request has its own tool-role message, in
\* request order, carrying the request's call identifier; a request whose
\* execution raised has the content "Error executing tool: <message>"; and
\* once the dispatch is over every request of the list was executed, the
\* ones after a failure included (each decodable one reached the server).
C3_FailuresStayInBand ==
    /\ \A i \in DOMAIN callOutcomes :
         /\ Len(messages) >= 3 + i
         /\ messages[3 + i].role = "tool"
         /\ messages[3 + i].tool_call_id = FirstToolCalls[i].id
         /\ callOutcomes[i].kind # "ok" =>
                messages[3 + i].content =
                    Str(<<"Error executing tool: ">> \o callOutcomes[i].err)
    /\ (Len(FirstToolCalls) >= 1 /\ (qpc = "final_call" \/ qpc = "done")) =>
         /\ Len(callOutcomes) = Len(FirstToolCalls)
         /\ Len(messages) = 3 + Len(FirstToolCalls)
         /\ \A i \in DecodableRequests : \E k \in DOMAIN serverCalls : serverCalls[k].request = i

C3_Witness ==
    /\ qpc = "final_call"
    /\ Len(FirstToolCalls) = 2
    /\ callOutcomes[1].kind = "raised"
    /\ callOutcomes[2].kind = "ok"
    /\ messages[4].content = Str(<<"Error executing tool: ", "Connection closed">>)
    /\ Len(serverCalls) = 2

C5_CatalogFailureDegrades ==
    /\ Failed(toolsFetch) => tools = <<>>
    /\ Failed(resFetch) => resources_info = <<>>
    /\ (Failed(toolsFetch) \/ Failed(resFetch)) =>
         (qpc \in {"get_resources", "first_call"} \/ Len(apiLog) >= 1)
    /\ Len(apiLog) >= 1 =>
         /\ Failed(toolsFetch) =>
                apiLog[1].tools = PyNone /\ apiLog[1].tool_choice = PyNone
         /\ Failed(resFetch) =>
                apiLog[1].messages[1] =
                    [role |-> "system", content |-> Str(<<SYSTEM_MESSAGE_BASE>>)]

C5_Witness ==
    /\ Len(apiLog) >= 1
    /\ serverTools # <<>>
    /\ serverResources # <<>>
    /\ toolsFetch = "list_resources_raised"
    /\ resFetch = "list_tools_raised"
    /\ apiLog[1].tools = PyNone

\* C6: when connect_to_mcp_server has ended, on whatever path, the
\* subprocess is not running, the streams are not open and the session is
\* not open.
C6_ScopeReleases ==
    cpc = "done" => (proc # "running" /\ stream # "open" /\ session # "open")

C6_Witness ==
    /\ cpc = "done"
    /\ failedAt = "body"
    /\ proc = "terminated"
    /\ stream = "closed"
    /\ session = "closed"

\* C7: a session is yielded only if the handshake completed before the
\* timeout elapsed; when the timeout fires before the handshake completed
\* no session is yielded, and the manager ends with TimeoutError for the
\* caller and without a running subprocess.
C7_HandshakeTimeout ==
    /\ (yielded /\ timeout # 0) => (yieldedAt < timeout /\ firedAt \notin HandshakePoints)
    /\ firedAt \in HandshakePoints => ~yielded
    /\ (cpc = "done" /\ firedAt \in HandshakePoints) =>
         /\ outcome # <<>>
         /\ Head(outcome).class = "TimeoutError"
         /\ proc # "running"

C7_Witness ==
    /\ cpc = "done"
    /\ firedAt = "initialize"
    /\ proc = "terminated"
    /\ ~yielded

\* C8: the two failure kinds stay distinct for the caller: a timeout that
\* fires during the handshake ends the manager with TimeoutError, and a
\* failure of the subprocess start, the session start or the handshake
\* ends it with ConnectionError.
C8_DistinctConditions ==
    cpc = "done" =>
        /\ firedAt \in HandshakePoints =>
               (outcome # <<>> /\ Head(outcome).class = "TimeoutError")
        /\ failedAt \in HandshakePoints =>
               (outcome # <<>> /\ Head(outcome).class = "ConnectionError")

C8_Witness ==
    /\ cpc = "done"
    /\ failedAt = "stdio_enter"
    /\ outcome # <<>>
    /\ Head(outcome).class = "ConnectionError"

\* C9: when the catalog retrieval succeeds, get_mcp_tools returns one
\* "function" entry per tool of the server's catalog, in catalog order,
\* each with that tool's name and description unchanged.
C9_OneEntryPerTool ==
    toolsFetch = "ok" =>
        /\ Len(tools) = Len(serverTools)
        /\ \A i \in DOMAIN serverTools :
             /\ tools[i].type = "function"
             /\ tools[i].function.name = serverTools[i].name
             /\ tools[i].function.description = serverTools[i].description

C9_Witness ==
    /\ toolsFetch = "ok"
    /\ Len(serverTools) = 2
    /\ serverTools[1] # serverTools[2]
    /\ Len(tools) = 2

\* C10: the "parameters" field of the function entry get_mcp_tools produces
\* for a tool is that tool's declared input schema.
C10_ParametersAreSchema ==
    toolsFetch = "ok" =>
        \A i \in DOMAIN tools : tools[i].function.parameters = serverTools[i].inputSchema

\* C11: the system message of a query is the base prompt alone when the
\* resource list is empty; otherwise it is the base prompt, the resources
\* heading, one line "- <name>: <description>" per resource in list
\* order (a missing description reads "None"), and the tool-usage prompt.
C11_ResourceBullets ==
    Len(messages) >= 2 =>
        LET text == messages[1].content.val
            n == Len(resources_info)
        IN  /\ messages[1].role = "system"
            /\ messages[1].content.kind = "str"
            /\ n = 0 => text = <<SYSTEM_MESSAGE_BASE>>
            /\ n > 0 =>
                 /\ Len(text) = 3 + 5 * n
                 /\ text[1] = SYSTEM_MESSAGE_BASE
                 /\ text[2] = RESOURCES_PROMPT
                 /\ text[Len(text)] = TOOL_USAGE_PROMPT
                 /\ \A i \in 1..n :
                      SubSeq(text, 5 * i - 2, 5 * i + 2) =
                          <<"- ", resources_info[i].resource.name, ": ",
                            IF resources_info[i].resource.description.kind = "None"
                            THEN "None"
                            ELSE resources_info[i].resource.description.val[1],
                            "\n">>

C11_Witness ==
    /\ Len(messages) >= 2
    /\ Len(resources_info) = 2
    /\ resources_info[1].resource.name = "undocumented"
    /\ resources_info[2].resource.name = "get_config"
    /\ Len(messages[1].content.val) = 13

\* C12 (as stated): the first completion call of every query carries
\* exactly the two messages system and user, the tool catalog, and tool
\* choice "auto".
C12_Original ==
    Len(apiLog) >= 1 =>
        /\ Len(apiLog[1].messages) = 2
        /\ apiLog[1].messages[1].role = "system"
        /\ apiLog[1].messages[2] = [role |-> "user", content |-> UserQuery]
        /\ apiLog[1].tools = PyList(tools)
        /\ apiLog[1].tool_choice = Str(<<"auto">>)

\* C12 (amended): the first completion call of every query carries exactly
\* the two messages system and user; with a non-empty tool catalog it
\* carries the catalog and tool choice "auto", with an empty one it carries
\* neither tools nor a tool choice (both None).
C12_Amended ==
    Len(apiLog) >= 1 =>
        /\ Len(apiLog[1].messages) = 2
        /\ apiLog[1].messages[1].role = "system"
        /\ apiLog[1].messages[2] = [role |-> "user", content |-> UserQuery]
        /\ tools # <<>> =>
               (apiLog[1].tools = PyList(tools) /\ apiLog[1].tool_choice = Str(<<"auto">>))
        /\ tools = <<>> =>
               (apiLog[1].tools = PyNone /\ apiLog[1].tool_choice = PyNone)

C12_Witness ==
    /\ Len(apiLog) = 1
    /\ Len(tools) = 2
    /\ apiLog[1].tool_choice = Str(<<"auto">>)
    /\ Len(apiLog[1].tools.val) = 2

C14_ReaderMapping ==
    spc = "returned" =>
        /\ StartsWith(resource_uri, "greeting://") =>
               srvResult = <<"Hello, ">> \o Tail(resource_uri) \o <<"!">>
        /\ resource_uri = <<"config://app">> => srvResult = <<"App configuration here">>
        /\ (/\ ~StartsWith(resource_uri, "greeting://")
            /\ resource_uri \notin {<<"config://app">>, <<"config://get_config">>,
                                    <<"data://list">>, <<"data://list_all_data_products">>})
               => srvResult = <<"Unknown resource URI: ">> \o resource_uri

\* C15: whatever process_query_with_resource_tools returns is text: the
\* completion API's answer or the apology string, never None.
C15_ReturnsText == qpc = "done" => result.kind = "str"

IsPrefix(a, b) == Len(a) <= Len(b) /\ SubSeq(b, 1, Len(a)) = a
FinalHistoryShape ==
    Len(apiLog) = 2 =>
        LET hist == apiLog[2].messages
            n == Len(FirstToolCalls)
        IN  /\ Len(hist) = 3 + n
            /\ hist[1].role = "system"
            /\ hist[2].role = "user"
            /\ hist[3] = AssistantMessage(apiReplies[1])
            /\ \A i \in 1..n :
                 /\ hist[3 + i].role = "tool"
                 /\ hist[3 + i].tool_call_id = FirstToolCalls[i].id
            /\ Len(callOutcomes) = n

\* C16: the conversation list only grows at its end (each step leaves the
\* earlier list as a prefix of the later one), and the list submitted with
\* the final call is system, user, the assistant response and then one
\* tool message per tool-call request, the i-th carrying the call
\* identifier of the i-th request, whether it succeeded or failed.
C16_AppendOnlyHistory ==
    /\ [][IsPrefix(messages, messages')]_vars
    /\ []FinalHistoryShape

C16_Witness ==
    /\ Len(apiLog) = 2
    /\ Len(FirstToolCalls) = 2
    /\ callOutcomes[1].kind = "ok"
    /\ callOutcomes[2].kind = "undecodable"
    /\ apiLog[2].messages[5].tool_call_id = <<"call", 2>>

\* C17: the timeout guards the handshake alone: once the session has been
\* yielded the timeout does not fire, whatever time the caller's body takes.
C17_TimeoutOnlyHandshake == yielded => firedAt = "none"

SingleRoundState ==
    /\ Len(apiLog) <= 2
    /\ Len(apiLog) = 2 => qpc = "done"
    /\ Len(callOutcomes) <= Len(FirstToolCalls)
    /\ \A k \in DOMAIN serverCalls : serverCalls[k].request \in DOMAIN FirstToolCalls

\* C18: a query has at most one round of tool dispatch: at most 2
\* completion calls are made on every path, the function is over with the
\* second one, no call_tool is issued after it, and only the requests of
\* the first response are ever executed (those of a second response never).
C18_SingleRound ==
    /\ []SingleRoundState
    /\ [][Len(apiLog) = 2 => (serverCalls' = serverCalls /\ apiLog' = apiLog)]_vars

C18_Witness ==
    /\ qpc = "done"
    /\ Len(apiReplies) = 2
    /\ apiReplies[2].tool_calls # <<>>
    /\ Len(serverCalls) = 1
    /\ result = PyNone

Outstanding ==
    Len(serverCalls)
    - Cardinality({i \in DOMAIN callOutcomes : callOutcomes[i].kind # "undecodable"})

\* C19: tool dispatch is sequential: at most one call_tool is outstanding,
\* calls are issued in request order, and while the call of request i is
\* outstanding every earlier request has ended and has its tool message in
\* the conversation.
C19_SequentialDispatch ==
    /\ Outstanding \in {0, 1}
    /\ Outstanding = 1 <=> qpc = "awaiting_tool"
    /\ \A k \in DOMAIN serverCalls :
         k > 1 => serverCalls[k - 1].request < serverCalls[k].request
    /\ qpc = "awaiting_tool" =>
         /\ serverCalls[Len(serverCalls)].request = Len(callOutcomes) + 1
         /\ Len(messages) = 3 + Len(callOutcomes)

C19_Witness ==
    /\ qpc = "awaiting_tool"
    /\ Len(serverCalls) = 2
    /\ Len(callOutcomes) = 1
    /\ Len(messages) = 4

AttemptsFor(i) == Cardinality({k \in DOMAIN serverCalls : serverCalls[k].request = i})

\* C20: nothing is retried: within a query every tool-call request has at
\* most one call_tool attempt, each of the two completion steps has at most
\* one API attempt (the first call is made once, the final call once and
\* only after a first call that returned a message, and no call follows a
\* failed one), and within a connection scope the subprocess is started at
\* most once and the handshake attempted at most once, whatever fails.
C20_NoRetries ==
    /\ \A i \in 1..MaxToolCalls : AttemptsFor(i) <= 1
    /\ Len(apiLog) <= 2
    /\ Len(apiLog) = 2 =>
         /\ IsPrefix(apiLog[1].messages, apiLog[2].messages)
         /\ Len(apiLog[2].messages) > Len(apiLog[1].messages)
    /\ \A k \in DOMAIN apiReplies : apiReplies[k].kind # "message" => Len(apiLog) = k
    /\ spawns <= 1
    /\ handshakes <= 1
    /\ handshakes <= spawns

C20_Witness ==
    /\ qpc = "done"
    /\ \E i \in DOMAIN callOutcomes : callOutcomes[i].kind = "raised" /\ AttemptsFor(i) = 1
    /\ Len(apiReplies) = 2
    /\ apiReplies[2].kind # "message"

C20_HandshakeFailedOnce ==
    /\ cpc = "done"
    /\ failedAt = "initialize"
    /\ spawns = 1
    /\ handshakes = 1

\* C21: a handshake failure is handled exactly once: when
\* session.initialize() raised, the manager ends with a ConnectionError
\* whose cause is the original failure itself, not another ConnectionError.
C21_HandledOnce ==
    (cpc = "done" /\ failedAt = "initialize") =>
        /\ Len(outcome) = 2
        /\ outcome[1].class = "ConnectionError"
        /\ outcome[2] \in HandshakeErrors

\* the exception the caller's body raised: the innermost of the chain
BodyError == outcome[Len(outcome)]

\* C22 (as stated): whatever the caller's body raises while it uses the
\* yielded session reaches the caller of the scope as a ConnectionError.
C22_Original ==
    (cpc = "done" /\ failedAt = "body") =>
        (outcome # <<>> /\ Head(outcome).class = "ConnectionError")

\* C22 (amended): an exception of a class derived from Exception that the
\* caller's body raises leaves the scope as ConnectionError("MCP server
\* connection failed") caused by ConnectionError("MCP session
\* initialization failed") caused by the body's exception, as a handshake
\* failure does; an exception that is not derived from Exception leaves
\* the scope unchanged.
C22_Amended ==
    (cpc = "done" /\ failedAt = "body") =>
        /\ outcome # <<>>
        /\ BodyError \in BodyErrors
        /\ IF BodyError.class \in ExceptionClasses
           THEN outcome = <<Exc("ConnectionError", "MCP server connection failed"),
                            Exc("ConnectionError", "MCP session initialization failed"),
                            BodyError>>
           ELSE outcome = <<BodyError>>

C22_Witness ==
    /\ cpc = "done"
    /\ failedAt = "body"
    /\ yielded
    /\ Len(outcome) = 3
    /\ outcome[1].class = "ConnectionError"
    /\ outcome[3].class = "RuntimeError"

\* the tool messages in the conversation that answer request i
ToolMessagesFor(i) ==
    {j \in 4..Len(messages) : messages[j].tool_call_id = FirstToolCalls[i].id}

\* C23: a tool-call request whose arguments are not valid JSON is never
\* forwarded to the server; once handled it has exactly one tool message,
\* with its call identifier and content starting "Error executing tool: ";
\* the other requests are dispatched as usual, so that after the loop there
\* is one message per request and one server call per decodable request.
C23_UndecodableNotForwarded ==
    /\ \A k \in DOMAIN serverCalls : Decodable(FirstToolCalls[serverCalls[k].request])
    /\ \A i \in DOMAIN callOutcomes :
         ~Decodable(FirstToolCalls[i]) =>
             /\ AttemptsFor(i) = 0
             /\ ToolMessagesFor(i) = {3 + i}
             /\ messages[3 + i].role = "tool"
             /\ messages[3 + i].content.kind = "str"
             /\ Head(messages[3 + i].content.val) = "Error executing tool: "
    /\ (qpc \in {"final_call", "done"} /\ FirstToolCalls # <<>>) =>
         /\ Len(callOutcomes) = Len(FirstToolCalls)
         /\ Len(messages) = 3 + Len(FirstToolCalls)
         /\ Len(serverCalls) = Cardinality(DecodableRequests)
         /\ \A i \in DecodableRequests : AttemptsFor(i) = 1

C23_Witness ==
    /\ qpc = "done"
    /\ Len(FirstToolCalls) = 2
    /\ ~Decodable(FirstToolCalls[1])
    /\ Decodable(FirstToolCalls[2])
    /\ Len(serverCalls) = 1
    /\ serverCalls[1].request = 2
    /\ callOutcomes[2].kind = "ok"

\* C24: the two catalogs fail together: get_mcp_tools returns the empty
\* list whenever list_tools or list_resources raised inside its
\* get_server_info call, even when list_tools had returned a non-empty
\* catalog, and get_mcp_resources likewise; otherwise each returns one
\* entry per item of its catalog.
C24_CatalogsFailTogether ==
    /\ Failed(toolsFetch) => tools = <<>>
    /\ Failed(resFetch) => resources_info = <<>>
    /\ toolsFetch = "ok" => Len(tools) = Len(serverTools)
    /\ resFetch = "ok" => Len(resources_info) = Len(serverResources)

C24_Witness ==
    /\ serverTools # <<>>
    /\ serverResources # <<>>
    /\ toolsFetch = "list_resources_raised"
    /\ tools = <<>>
    /\ resFetch = "ok"
    /\ resources_info # <<>>

====
